---- MODULE Spec2Model ----
(***************************************************************************)
(* Layout metric engine and search drivers of keywhisker                   *)
(* (src/src/analysis.rs, src/src/ddako/simulated_annealing.rs).            *)
(*                                                                         *)
(* Conventions.  Positions, metric indices and stroke indices are 0-based  *)
(* as in the source; a Vec is a TLA+ sequence, so element p of a Vec v is  *)
(* v[p + 1].  f32 totals are modelled exactly: contribution amounts are    *)
(* integers in units of 1e-6, a stats vector holds integers in that unit,  *)
(* and an evaluator score is kept as its numerator over the common         *)
(* denominator |sum of raw weights| (see eval).  Floating-point rounding   *)
(* is not modelled.                                                        *)
(***************************************************************************)
EXTENDS Integers, Sequences, FiniteSets, TLC

(***************************************************************************)
(* Input fixtures: one keyboard, one corpus, the metric data files and the *)
(* weight lists a generation request may name.                             *)
(***************************************************************************)

\* keyboard.keys.map (rows of keys) and keyboard.combos of the metric data
KeyMap == << <<0, 1>>, <<2>> >>
Combos == << <<0, 1>> >>

\* char_set, already as corpus character codes (corpus.corpus_char; a character
\* the corpus does not know has code 0)
CharSet == <<1, 2, 3>>

\* the char_set arguments of a request: the second has more characters than the
\* keyboard has positions
CharSets == { CharSet, <<1, 2, 3, 0, 0>> }

\* corpus.chars, corpus.bigrams by character code 1..3
CorpusChars == <<5, 3, 2>>
CorpusBigrams == << <<0, 4, 1>>, <<2, 0, 3>>, <<1, 2, 0>> >>

\* metric descriptors (name, short name) of every metric data file; the
\* selector "rl" matches two of them
Metrics ==
  << [name |-> "sfb",  short |-> "sfb"],
     [name |-> "roll", short |-> "rl"],
     [name |-> "home", short |-> "rl"] >>

MetricCount == Len(Metrics)

\* strokes of the metric data files: [nstroke, amounts], an amount being
\* [metric, amount]
Strokes1 ==
  << [nstroke |-> <<0, 1>>,    amounts |-> << [metric |-> 0, amount |-> 2000] >>],
     [nstroke |-> <<1, 2>>,    amounts |-> << [metric |-> 0, amount |-> 1000],
                                              [metric |-> 1, amount |-> 3000] >>],
     [nstroke |-> <<2, 3>>,    amounts |-> << [metric |-> 1, amount |-> 1000] >>],
     [nstroke |-> <<0>>,       amounts |-> << [metric |-> 2, amount |-> 1] >>],
     [nstroke |-> <<3, 0>>,    amounts |-> << [metric |-> 0, amount |-> 1000] >>],
     [nstroke |-> <<0, 2>>,    amounts |-> << [metric |-> 1, amount |-> 2000],
                                              [metric |-> 2, amount |-> 1] >>],
     [nstroke |-> <<1, 3, 0>>, amounts |-> << [metric |-> 0, amount |-> 1] >>],
     [nstroke |-> <<1>>,       amounts |-> << [metric |-> 2, amount |-> 2] >>] >>

Strokes2 ==
  << [nstroke |-> <<0, 1>>,    amounts |-> << [metric |-> 0, amount |-> 1000] >>],
     [nstroke |-> <<1, 0>>,    amounts |-> << [metric |-> 0, amount |-> 2000],
                                              [metric |-> 1, amount |-> 1000] >>],
     [nstroke |-> <<0>>,       amounts |-> << [metric |-> 1, amount |-> 1] >>] >>

MetricDatas == << Strokes1, Strokes2 >>

\* the metrics argument of a request: (selector, raw i16 weight) pairs; Collect
\* takes the selectors only.  The fourth has a selector no descriptor matches;
\* the raw weights of the fifth sum to zero, the sixth is empty.
MetricArgs ==
  << << <<"sfb", 1>> >>,
     << <<"sfb", 2>>, <<"rl", -1>> >>,
     << <<"roll", 1>>, <<"home", -3>> >>,
     << <<"sfb", 1>>, <<"sfr", 1>> >>,
     << <<"sfb", 1>>, <<"rl", -1>> >>,
     << >> >>

\* the count argument of a Collect request
Counts == {1, 4}

(***************************************************************************)
(* Generic helpers                                                         *)
(***************************************************************************)

RECURSIVE Flatten(_)
Flatten(ss) == IF ss = <<>> THEN <<>> ELSE Head(ss) \o Flatten(Tail(ss))

Range(s) == { s[k] : k \in DOMAIN s }

Abs(x) == IF x < 0 THEN -x ELSE x

Sgn(x) == IF x < 0 THEN -1 ELSE IF x > 0 THEN 1 ELSE 0

Zeros(n) == [k \in 1..n |-> 0]

(***************************************************************************)
(* Layout (keycat::Layout) and Swap                                        *)
(***************************************************************************)

\* position count of the keyboard: flattened key map + combos
PositionCount == Len(Flatten(KeyMap)) + Len(Combos)

\* layout_from_charset, lines 159-161: the usize subtraction.  With more
\* characters than positions it overflows: a panic in a build with overflow
\* checks; otherwise it wraps to a count near 2^64 and collecting that many
\* elements fails on the allocation.  Either way the call does not return.
layout_from_charset_panics(char_set) == Len(char_set) > PositionCount

\* layout_from_charset: the charset's codes, then code 0 up to the position count
layout_from_charset(char_set) ==
  char_set \o Zeros(PositionCount - Len(char_set))

\* mutant of LayoutSwap: position a takes the code of b, which keeps it
LayoutSwapCopy(l, swap) ==
  [k \in DOMAIN l |-> IF k = swap.a + 1 THEN l[swap.b + 1] ELSE l[k]]

\* Layout::swap: exchange the codes at positions a and b
LayoutSwap(l, swap) ==
  [k \in DOMAIN l |-> IF k = swap.a + 1 THEN l[swap.b + 1]
                       ELSE IF k = swap.b + 1 THEN l[swap.a + 1]
                       ELSE l[k]]

(***************************************************************************)
(* Corpus and Analyzer (keycat)                                            *)
(***************************************************************************)

\* corpus frequency of the ngram the layout spells on an nstroke; an unused
\* slot (code 0) has frequency 0
Frequency(l, ns) ==
  LET c == [k \in DOMAIN ns |-> l[ns[k] + 1]]
  IN IF \E k \in DOMAIN c : c[k] = 0 THEN 0
     ELSE IF Len(c) = 1 THEN CorpusChars[c[1]]
     ELSE IF Len(c) = 2 THEN CorpusBigrams[c[1]][c[2]]
     ELSE (c[1] + 2 * c[2] + 3 * c[3]) % 4

\* the amount a stroke credits to metric m (0 when it has no such contribution)
RECURSIVE AmountFor(_, _)
AmountFor(amounts, m) ==
  IF amounts = <<>> THEN 0
  ELSE (IF Head(amounts).metric = m THEN Head(amounts).amount ELSE 0)
       + AmountFor(Tail(amounts), m)

\* Analyzer::calc_stats: per-metric totals of a layout over all strokes
RECURSIVE CalcOver(_, _, _)
CalcOver(strokes, l, m) ==
  IF strokes = <<>> THEN 0
  ELSE AmountFor(Head(strokes).amounts, m) * Frequency(l, Head(strokes).nstroke)
       + CalcOver(Tail(strokes), l, m)

calc_stats(data, l) ==
  [k \in 1..MetricCount |-> CalcOver(data.strokes, l, k - 1)]

\* Analyzer::recalc_stats: calc_stats added into the caller's buffer
recalc_stats(stats_out, data, l) ==
  [k \in DOMAIN stats_out |-> stats_out[k] + calc_stats(data, l)[k]]

\* KcMetricData::from: the strokes and, per keyboard position, the indices of
\* the strokes touching it (one entry per occurrence, in stroke order)
RECURSIVE StrokesAt(_, _, _)
StrokesAt(strokes, i, p) ==
  IF strokes = <<>> THEN <<>>
  ELSE [k \in 1..Len(SelectSeq(Head(strokes).nstroke, LAMBDA q : q = p)) |-> i]
       \o StrokesAt(Tail(strokes), i + 1, p)

kc_metric_data(strokes, position_count) ==
  [strokes |-> strokes,
   position_strokes |-> [p \in 1..position_count |-> StrokesAt(strokes, 0, p - 1)]]

\* filter_metrics, line 141: the number of lists of the rebuilt index
FilterIndexLen(md) == Len(md.position_strokes[1])

\* mutant of FilterStrokes: only a stroke's first contribution is looked at
FilterStrokesFirst(md, metrics) ==
  SelectSeq(md.strokes,
            LAMBDA ns : ns.amounts # <<>> /\ ns.amounts[1].metric \in Range(metrics))

\* mutant of FilterStrokes: a stroke is kept when all its contributions are kept
FilterStrokesAll(md, metrics) ==
  SelectSeq(md.strokes,
            LAMBDA ns : \A k \in DOMAIN ns.amounts : ns.amounts[k].metric \in Range(metrics))

\* filter_metrics, lines 136-140: the strokes with a contribution to a kept metric
FilterStrokes(md, metrics) ==
  SelectSeq(md.strokes,
            LAMBDA ns : \E k \in DOMAIN ns.amounts : ns.amounts[k].metric \in Range(metrics))

\* filter_metrics, line 144: position_strokes[pos].push(i) indexes out of bounds
filter_metrics_panics(md, metrics) ==
  \/ Len(md.position_strokes) = 0
  \/ \E k \in DOMAIN FilterStrokes(md, metrics) :
        \E q \in Range(FilterStrokes(md, metrics)[k].nstroke) : q >= FilterIndexLen(md)

\* mutant of filter_metrics: the index is built from the unfiltered strokes
filter_metrics_stale(md, metrics) ==
  [strokes |-> FilterStrokes(md, metrics),
   position_strokes |-> [p \in 1..FilterIndexLen(md) |-> StrokesAt(md.strokes, 0, p - 1)]]

filter_metrics(md, metrics) ==
  LET strokes == FilterStrokes(md, metrics)
  IN [strokes |-> strokes,
      position_strokes |-> [p \in 1..FilterIndexLen(md) |-> StrokesAt(strokes, 0, p - 1)]]

\* Analyzer::swap_diff indexes position_strokes[swap.a] and [swap.b]
swap_diff_panics(data, swap) ==
  \/ swap.a >= Len(data.position_strokes)
  \/ swap.b >= Len(data.position_strokes)

\* Analyzer::swap_diff: over the strokes touching either swapped position (each
\* once), amount * (frequency after the swap - frequency before), per metric
RECURSIVE DiffOver(_, _, _, _, _, _)
DiffOver(strokes, i, touched, l, swap, m) ==
  IF strokes = <<>> THEN 0
  ELSE (IF i \in touched
        THEN AmountFor(Head(strokes).amounts, m)
             * (Frequency(LayoutSwap(l, swap), Head(strokes).nstroke)
                - Frequency(l, Head(strokes).nstroke))
        ELSE 0)
       + DiffOver(Tail(strokes), i + 1, touched, l, swap, m)

swap_diff(data, l, swap) ==
  LET touched == Range(data.position_strokes[swap.a + 1])
                 \cup Range(data.position_strokes[swap.b + 1])
  IN [k \in 1..MetricCount |-> DiffOver(data.strokes, 0, touched, l, swap, k - 1)]

(***************************************************************************)
(* Metric selectors                                                        *)
(***************************************************************************)

\* get_metric, line 130: the descriptors a selector matches, as 0-based indices
MetricMatches(sel, metrics) ==
  { k - 1 : k \in { j \in DOMAIN metrics : metrics[j].name = sel \/ metrics[j].short = sel } }

\* get_metric, line 132: find() yields None, context() makes it an error
metric_not_found(sel, metrics) == MetricMatches(sel, metrics) = {}

\* mutant of get_metric: the last match wins
get_metric_last(sel, metrics) ==
  CHOOSE m \in MetricMatches(sel, metrics) : \A n \in MetricMatches(sel, metrics) : n <= m

\* get_metric: find() yields the first match
get_metric(sel, metrics) ==
  CHOOSE m \in MetricMatches(sel, metrics) : \A n \in MetricMatches(sel, metrics) : m <= n

\* output_generation, lines 414-425, and output_table, lines 175-179: collect()
\* of the per-selector results is an error when any selector is unresolved
SelectorsUnresolved(metric_args) ==
  \E k \in DOMAIN metric_args : metric_not_found(metric_args[k][1], Metrics)

\* output_generation, lines 414-425: the (metric index, raw weight) pairs
ResolveWeights(metric_args) ==
  [k \in DOMAIN metric_args |->
     <<get_metric(metric_args[k][1], Metrics), metric_args[k][2]>>]

(***************************************************************************)
(* Evaluator                                                               *)
(***************************************************************************)

RECURSIVE RawSum(_)
RawSum(metrics) ==
  IF metrics = <<>> THEN 0 ELSE Head(metrics)[2] + RawSum(Tail(metrics))

\* mutant of EvaluatorFrom: the weights are divided by the magnitude of the sum
EvaluatorFromAbs(metrics) == [metrics |-> metrics, sum |-> Abs(RawSum(metrics))]

\* Evaluator::from: every weight is raw / sum; kept as the raw weights and
\* their sum
EvaluatorFrom(metrics) == [metrics |-> metrics, sum |-> RawSum(metrics)]

\* the k-th stored pair's weight, the fraction raw / sum (line 248)
Weight(evaluator, k) == [num |-> evaluator.metrics[k][2], den |-> evaluator.sum]

\* the f32 values that are not finite: a division by a zero sum gives them
\* (line 248).  They are integers outside the range of every finite score.
PosInf == 1000000000
NegInf == 0 - PosInf
NaN == PosInf + 1

Infinite(x) == x = PosInf \/ x = NegInf

\* f32 comparison: false when either side is NaN
FLess(x, y) == x # NaN /\ y # NaN /\ x < y

\* f32 addition and subtraction
FAdd(x, y) ==
  IF x = NaN \/ y = NaN THEN NaN
  ELSE IF Infinite(x) THEN (IF Infinite(y) /\ y # x THEN NaN ELSE x)
  ELSE IF Infinite(y) THEN y
  ELSE x + y

FNeg(x) == IF x = NaN THEN NaN ELSE 0 - x

FSub(x, y) == FAdd(x, FNeg(y))

RECURSIVE WeightedSum(_, _)
WeightedSum(metrics, stats) ==
  IF metrics = <<>> THEN 0
  ELSE Head(metrics)[2] * stats[Head(metrics)[1] + 1] + WeightedSum(Tail(metrics), stats)

\* x * stats[m] for a weight x = raw / 0.0: the weight is +inf, -inf or NaN
\* (raw = 0), and its product with a zero stat is NaN
DegenerateTerm(raw, stat) ==
  IF raw = 0 \/ stat = 0 THEN NaN
  ELSE IF Sgn(raw) * Sgn(stat) > 0 THEN PosInf ELSE NegInf

\* Evaluator::eval when the raw weights sum to zero; the sum of no term is 0.0
RECURSIVE DegenerateSum(_, _)
DegenerateSum(metrics, stats) ==
  IF metrics = <<>> THEN 0
  ELSE FAdd(DegenerateTerm(Head(metrics)[2], stats[Head(metrics)[1] + 1]),
            DegenerateSum(Tail(metrics), stats))

\* Evaluator::eval: sum of (raw / sum) * stats[m] over the stored pairs, as the
\* numerator of that value over the denominator |sum|
eval(evaluator, stats) ==
  IF evaluator.sum = 0 THEN DegenerateSum(evaluator.metrics, stats)
  ELSE Sgn(evaluator.sum) * WeightedSum(evaluator.metrics, stats)

\* the denominator of every score of an evaluator
Den(evaluator) == Abs(evaluator.sum)

(***************************************************************************)
(* Generation request: output_generation and OptimizationContext           *)
(***************************************************************************)

Strategies == {"GreedyDeterministic", "GreedyNaive", "SimulatedAnnealing",
               "DDAKOSimulatedAnnealing"}

\* output_generation, line 441: the filter on the pairs (a, b)
SwapAllowed(swap, p) == swap.a # swap.b /\ swap.a > p /\ swap.b > p

\* output_generation, lines 439-442: Swap::new(a, b) for a, b in 0..len, a-major
PossibleSwaps(len, p) ==
  SelectSeq([k \in 1..(len * len) |-> [a |-> (k - 1) \div len, b |-> (k - 1) % len]],
            LAMBDA swap : SwapAllowed(swap, p))

\* metric_weights.iter().map(|(m, _)| *m)
WeightMetrics(metric_weights) == [k \in DOMAIN metric_weights |-> metric_weights[k][1]]

\* mutant of ShuffleFrom: the slice starts one position early
ShuffleFromEarly(p) == p - 1

\* the first position the drivers' shuffle may move: layout.0[*pin..]
ShuffleFrom(p) == p

\* layout.0[pin..].shuffle(rng): every arrangement of the slots from pin on
Shuffles(l, p) ==
  LET D == DOMAIN l
      perms == { f \in [D -> D] : /\ \A x, y \in D : f[x] = f[y] => x = y
                                   /\ \A z \in D : z <= ShuffleFrom(p) => f[z] = z }
  IN { [k \in D |-> l[f[k]]] : f \in perms }

\* best_diff + 0.000001 < 0.0 (line 291): the tolerance, in units of 1e-6
GreedyTolerance == 1

\* the trial budget of greedy_naive_optimization (5000 at line 322), scaled down
NaiveTrials == 4

NoSwap == [a |-> 0, b |-> 0]

NoContext == [layout |-> <<>>, data |-> [strokes |-> <<>>, position_strokes |-> <<>>],
              possible_swaps |-> <<>>, evaluator |-> [metrics |-> <<>>, sum |-> 0],
              pin |-> 0]

NoResult == [iterations |-> 0, score |-> 0, stats |-> <<>>, layout |-> <<>>]

\* max_iterations: None (analysis.rs, line 397)
NoLimit == 0 - 1

\* the constructor arguments of analysis.rs, lines 393-396: cooling rate 0.9 as
\* tenths, the cooling intervals 5.0, 1.0 and 10.0 in thousandths
CoolingInterval0 == 5000
CoolingIntervalMin == 1000
CoolingIntervalMax == 10000

\* the cooling_interval argument of a driver constructed directly: the one of
\* analysis.rs, one a shortening takes below the minimum and one a lengthening
\* takes above the maximum
CoolingIntervals == {CoolingInterval0, 1050, 9500}

\* the runs argument of a request of several runs
Runs == 2

\* the worker threads of output_table (64 at line 197), scaled down
Threads == 2

VARIABLES
  command,    \* the request: "Generate" (output_generation) or "Collect" (output_table)
  strategy,   \* the request's strategy tag
  pin,        \* the request's pinned-prefix length
  mdi,        \* which metric data file the request loads
  wi,         \* which metrics argument the request has
  char_set,   \* the request's char_set
  count,      \* the count of a Collect request
  max_iterations,  \* SimulatedAnnealing::new: max_iterations, NoLimit for None
  initial_interval,  \* SimulatedAnnealing::new: cooling_interval, in thousandths
  runs,                 \* output_generation: runs
  pc,         \* where the request is
  error,      \* the error the request ended with
  created,    \* whether the output file was created
  rows,       \* the lines written to the output
  worker,     \* output_table: per worker thread, the iterations it has done
  wpc,        \* output_table: per worker thread, where it is in its iteration
  mutex,      \* output_table: the thread holding the progress mutex, 0 when free
  progress,   \* output_table: the progress counter
  arg,        \* a function called on its own: its name and arguments
  out,        \* what that call returned
  context,    \* the OptimizationContext
  layout,     \* the running driver's layout
  i,          \* the running driver's loop counter
  best_diff,  \* greedy_neighbor_optimization: best score of the pass
  best_swap,  \* greedy_neighbor_optimization: the swap with that score
  swap_i,     \* greedy_naive_optimization: index of the last applied trial
  swap,       \* the swap drawn in the last trial, iteration or move
  draw,       \* the uniform draw of the last iteration or move
  accepted,   \* whether the last trial, iteration or move applied its swap
  temp,       \* simulated_annealing: temperature, in units of 0.5 / iterations
  result,     \* the tuple the driver returned
  stats,                \* SimulatedAnnealing.stats
  fitness,              \* SimulatedAnnealing.fitness
  self_temp,            \* SimulatedAnnealing.temp: None or the temperature's class
  cooled,               \* how often the temperature was multiplied by cooling_rate
  stopping_point,       \* SimulatedAnnealing.stopping_point
  cooling_interval,     \* SimulatedAnnealing.cooling_interval, in thousandths
  best_layout,          \* optimize: best-ever layout
  best_fitness,         \* optimize: its fitness
  stays,                \* optimize: the stay counter
  iteration,            \* optimize: outer iterations done
  last_adjustment,      \* optimize: iteration of the last adaptation
  recent_acceptances,   \* optimize: the acceptance window
  last_improvement_iteration,  \* optimize: iteration of the last new best
  below,      \* optimize: whether the move's uniform draw was below exp(-delta / temp)
  tn,                      \* get_initial_temperature: the class of tn
  acceptance_probability,  \* get_initial_temperature: the class of acceptance_probability
  shuffled,   \* history: the running driver has executed its shuffle statement
  visited     \* history: the layouts greedy_neighbor_optimization has held in this run

\* the SimulatedAnnealing object and the locals of optimize
ddako == <<stats, fitness, self_temp, cooled, stopping_point, cooling_interval, best_layout,
           best_fitness, stays, iteration, last_adjustment, recent_acceptances,
           last_improvement_iteration, below, tn, acceptance_probability>>

\* the locals of get_initial_temperature
estimate == <<tn, acceptance_probability>>

vars == <<command, strategy, pin, mdi, wi, char_set, count, max_iterations, initial_interval,
          runs, pc, error, created, rows,
          worker, wpc, mutex, progress, arg, out, context, layout, i, best_diff, best_swap,
          swap_i, swap, draw, accepted, temp, result, ddako, shuffled, visited>>

history == <<shuffled, visited>>

\* the locals of one loop body
trial == <<swap, draw, accepted>>

request == <<command, strategy, pin, mdi, wi, char_set, count, max_iterations,
             initial_interval, runs>>

\* the error and the output of the request
sink == <<error, created, rows, worker, wpc, mutex, progress>>

\* the worker threads of output_table and what they share
workers == <<worker, wpc, mutex, progress>>

\* a function called on its own
call == <<arg, out>>

NoCall == [fn |-> "none"]

\* everything but the request's arguments, before the request starts
Start ==
  /\ pc = "request"
  /\ error = "none"
  /\ created = FALSE
  /\ rows = 0
  /\ worker = [t \in 1..Threads |-> 0]
  /\ wpc = [t \in 1..Threads |-> "none"]
  /\ mutex = 0
  /\ progress = 0
  /\ out = NoCall
  /\ context = NoContext
  /\ layout = <<>>
  /\ i = 0
  /\ best_diff = 0
  /\ best_swap = NoSwap
  /\ swap_i = 0
  /\ swap = NoSwap
  /\ draw = 0
  /\ accepted = FALSE
  /\ temp = 0
  /\ result = NoResult
  /\ stats = <<>>
  /\ fitness = 0
  /\ self_temp = "None"
  /\ cooled = 0
  /\ stopping_point = 0
  /\ cooling_interval = 0
  /\ best_layout = <<>>
  /\ best_fitness = 0
  /\ stays = 0
  /\ iteration = 0
  /\ last_adjustment = 0
  /\ recent_acceptances = <<>>
  /\ last_improvement_iteration = 0
  /\ below = FALSE
  /\ tn = "None"
  /\ acceptance_probability = "None"
  /\ shuffled = FALSE
  /\ visited = {}

\* the arguments of a generation request but the number of runs
\* (output_generation, lines 404-413); ddako_simulated_annealing constructs
\* its driver without max_iterations
GenerationArgs ==
  /\ max_iterations = NoLimit
  /\ initial_interval = CoolingInterval0
  /\ command = "Generate"
  /\ strategy \in Strategies
  /\ pin \in 0..PositionCount
  /\ mdi \in DOMAIN MetricDatas
  /\ wi \in DOMAIN MetricArgs
  /\ char_set \in CharSets
  /\ count = 0
  /\ arg = NoCall

\* a generation request of one run
Generation == GenerationArgs /\ runs = 1

\* the arguments of a Collect request (output_table, lines 168-174)
Collection ==
  /\ runs = 0
  /\ max_iterations = NoLimit
  /\ initial_interval = CoolingInterval0
  /\ command = "Collect"
  /\ strategy = "none"
  /\ pin = 0
  /\ mdi \in DOMAIN MetricDatas
  /\ wi \in DOMAIN MetricArgs
  /\ char_set \in CharSets
  /\ count \in Counts
  /\ arg = NoCall

\* the raw weights of a metrics argument sum to zero (the empty one included)
ZeroSum(metric_args) == ~SelectorsUnresolved(metric_args) /\ RawSum(metric_args) = 0

\* the requests whose evaluator has finite weights, and every Collect request
Init ==
  /\ Start
  /\ \/ Generation /\ ~ZeroSum(MetricArgs[wi])
     \/ Collection

\* output_generation, lines 414-469: resolve the selectors, build the
\* evaluator, the seed layout, the filtered metric data and the possible swaps,
\* create the output file and write its header line
Setup ==
  /\ pc = "request" /\ command = "Generate"
  /\ IF SelectorsUnresolved(MetricArgs[wi])
     THEN /\ pc' = "error"
          /\ error' = "metric not found"
          /\ UNCHANGED <<context, created, rows>>
     ELSE IF layout_from_charset_panics(char_set)
     THEN /\ pc' = "panic"
          /\ UNCHANGED <<context, error, created, rows>>
     ELSE LET metric_weights == ResolveWeights(MetricArgs[wi])
              seed == layout_from_charset(char_set)
              md == kc_metric_data(MetricDatas[mdi], Len(seed))
          IN IF filter_metrics_panics(md, WeightMetrics(metric_weights))
             THEN /\ pc' = "panic"
                  /\ UNCHANGED <<context, error, created, rows>>
             ELSE /\ pc' = "context"
                  /\ context' = [layout |-> seed,
                                 data |-> filter_metrics(md, WeightMetrics(metric_weights)),
                                 possible_swaps |-> PossibleSwaps(Len(seed), pin),
                                 evaluator |-> EvaluatorFrom(metric_weights),
                                 pin |-> pin]
                  /\ created' = TRUE
                  /\ rows' = 1
                  /\ UNCHANGED error
  /\ UNCHANGED <<request, workers, call, layout, i, best_diff, best_swap, swap_i, trial, temp,
                 result, ddako, history>>

\* output_generation, lines 480-497: the record of the run the driver returned
Gen_Write ==
  /\ pc = "returned"
  /\ rows' = rows + 1
  /\ pc' = "written"
  /\ UNCHANGED <<request, error, created, workers, call, context, layout, i, best_diff,
                 best_swap, swap_i, trial, temp, result, ddako, history>>

\* output_generation, line 473: the next turn of `for _ in 0..runs`, taken
\* while the records written are fewer than runs; the locals of the driver
\* that returned are gone and the next driver starts from the context
Gen_Again ==
  /\ pc = "written"
  /\ rows - 1 < runs
  /\ pc' = "context"
  /\ layout' = <<>>
  /\ i' = 0
  /\ best_diff' = 0
  /\ best_swap' = NoSwap
  /\ swap_i' = 0
  /\ swap' = NoSwap
  /\ draw' = 0
  /\ accepted' = FALSE
  /\ temp' = 0
  /\ result' = NoResult
  /\ stats' = <<>>
  /\ fitness' = 0
  /\ self_temp' = "None"
  /\ cooled' = 0
  /\ stopping_point' = 0
  /\ cooling_interval' = 0
  /\ best_layout' = <<>>
  /\ best_fitness' = 0
  /\ stays' = 0
  /\ iteration' = 0
  /\ last_adjustment' = 0
  /\ recent_acceptances' = <<>>
  /\ last_improvement_iteration' = 0
  /\ below' = FALSE
  /\ tn' = "None"
  /\ acceptance_probability' = "None"
  /\ shuffled' = FALSE
  /\ visited' = {}
  /\ UNCHANGED <<request, sink, call, context>>

\* the selectors of a metrics argument
MetricNames(metric_args) == [k \in DOMAIN metric_args |-> metric_args[k][1]]

\* output_table, lines 175-197: resolve the selectors, build the seed layout
\* and the filtered metric data, create data/data.csv and write its header line
Collect_Setup ==
  /\ pc = "request" /\ command = "Collect"
  /\ IF SelectorsUnresolved(MetricArgs[wi])
     THEN /\ pc' = "error"
          /\ error' = "metric not found"
          /\ UNCHANGED <<context, created, rows, wpc>>
     ELSE IF layout_from_charset_panics(char_set)
     THEN /\ pc' = "panic"
          /\ UNCHANGED <<context, error, created, rows, wpc>>
     ELSE LET metrics == [k \in DOMAIN MetricArgs[wi] |->
                            get_metric(MetricNames(MetricArgs[wi])[k], Metrics)]
              seed == layout_from_charset(char_set)
              md == kc_metric_data(MetricDatas[mdi], Len(seed))
          IN IF filter_metrics_panics(md, metrics)
             THEN /\ pc' = "panic"
                  /\ UNCHANGED <<context, error, created, rows, wpc>>
             ELSE /\ pc' = "collecting"
                  /\ context' = [NoContext EXCEPT !.layout = seed,
                                                  !.data = filter_metrics(md, metrics)]
                  /\ created' = TRUE
                  /\ rows' = 1
                  /\ wpc' = [t \in 1..Threads |-> "loop"]
                  /\ UNCHANGED error
  /\ UNCHANGED <<request, worker, mutex, progress, call, layout, i, best_diff, best_swap, swap_i, trial, temp,
                 result, ddako, history>>

\* what a worker's step leaves alone
WorkerFrame ==
  UNCHANGED <<request, pc, error, created, call, context, layout, i, best_diff,
              best_swap, swap_i, trial, temp, result, ddako, history>>

\* output_table, lines 211-221: the top of an iteration of a worker thread: the
\* budget test, the shuffle, the stats and the line of the sample
Collect_Sample(t) ==
  /\ pc = "collecting" /\ wpc[t] = "loop"
  /\ worker[t] < count \div Threads
  /\ wpc' = [wpc EXCEPT ![t] = "line"]
  /\ UNCHANGED <<rows, worker, mutex, progress>>
  /\ WorkerFrame

\* line 222: writer.write_all starts writing the line to the thread's own
\* handle of data/data.csv; no lock is taken
Collect_Write(t) ==
  /\ pc = "collecting" /\ wpc[t] = "line"
  /\ wpc' = [wpc EXCEPT ![t] = "writing"]
  /\ UNCHANGED <<rows, worker, mutex, progress>>
  /\ WorkerFrame

\* line 222: the line is in the file
Collect_Written(t) ==
  /\ pc = "collecting" /\ wpc[t] = "writing"
  /\ rows' = rows + 1
  /\ wpc' = [wpc EXCEPT ![t] = "lock"]
  /\ UNCHANGED <<worker, mutex, progress>>
  /\ WorkerFrame

\* line 223: progress.lock()
Collect_Lock(t) ==
  /\ pc = "collecting" /\ wpc[t] = "lock"
  /\ mutex = 0
  /\ mutex' = t
  /\ wpc' = [wpc EXCEPT ![t] = "locked"]
  /\ UNCHANGED <<rows, worker, progress>>
  /\ WorkerFrame

\* line 223: inc_and_draw(&bar, 1); the guard is dropped at the end of the
\* statement and the iteration is over
Collect_Progress(t) ==
  /\ pc = "collecting" /\ wpc[t] = "locked"
  /\ progress' = progress + 1
  /\ mutex' = 0
  /\ worker' = [worker EXCEPT ![t] = @ + 1]
  /\ wpc' = [wpc EXCEPT ![t] = "loop"]
  /\ UNCHANGED rows
  /\ WorkerFrame

\* line 211: the range count / threads is used up and the thread ends
Collect_Exit(t) ==
  /\ pc = "collecting" /\ wpc[t] = "loop"
  /\ worker[t] = count \div Threads
  /\ wpc' = [wpc EXCEPT ![t] = "done"]
  /\ UNCHANGED <<rows, worker, mutex, progress>>
  /\ WorkerFrame

Collect_Work ==
  \E t \in 1..Threads :
     \/ Collect_Sample(t) \/ Collect_Write(t) \/ Collect_Written(t)
     \/ Collect_Lock(t) \/ Collect_Progress(t) \/ Collect_Exit(t)

\* output_table, lines 227-229: the scope ends when every thread has ended
Collect_Join ==
  /\ pc = "collecting"
  /\ \A t \in 1..Threads : wpc[t] = "done"
  /\ pc' = "collected"
  /\ UNCHANGED <<request, sink, call, context, layout, i, best_diff,
                 best_swap, swap_i, trial, temp, result, ddako, history>>

\* the tuple every greedy driver returns: stats recomputed from scratch
FinalResult(iterations, l) ==
  [iterations |-> iterations,
   score |-> eval(context.evaluator, calc_stats(context.data, l)),
   stats |-> calc_stats(context.data, l),
   layout |-> l]

\* score of a swap's diff: evaluator.eval(&diff) after analyzer.swap_diff
SwapScore(l, s) == eval(context.evaluator, swap_diff(context.data, l, s))

\* score of a layout from scratch: evaluator.eval(&analyzer.calc_stats(&layout))
Score(l) == eval(context.evaluator, calc_stats(context.data, l))

(***************************************************************************)
(* greedy_neighbor_optimization (GreedyDeterministic)                      *)
(***************************************************************************)

\* lines 268-277: clone the seed, shuffle from pin on, i = 0
GD_Start ==
  /\ pc = "context" /\ strategy = "GreedyDeterministic"
  /\ layout' \in Shuffles(context.layout, context.pin)
  /\ shuffled' = TRUE
  /\ visited' = {layout'}
  /\ i' = 0
  /\ pc' = "gd_pass"
  /\ UNCHANGED <<request, sink, call, context, best_diff, best_swap, swap_i, trial, temp, result, ddako>>

\* mutant of ScoreBetter: an equal score replaces the best one too
ScoreBetterLoose(score, best) == ~FLess(best, score)

\* a score is better when strictly lower (line 286)
ScoreBetter(score, best) == FLess(score, best)

\* lines 279-290: the pass over possible_swaps, keeping the first lowest score
RECURSIVE ScanSwaps(_, _, _)
ScanSwaps(swaps, l, best) ==
  IF swaps = <<>> THEN best
  ELSE LET score == SwapScore(l, Head(swaps))
       IN ScanSwaps(Tail(swaps), l,
                    IF ScoreBetter(score, best.diff)
                    THEN [swap |-> Head(swaps), diff |-> score]
                    ELSE best)

\* lines 279-290; possible_swaps[0] panics on an empty list, swap_diff on a
\* position the index has no list for
GD_Scan ==
  /\ pc = "gd_pass"
  /\ IF \/ context.possible_swaps = <<>>
        \/ \E k \in DOMAIN context.possible_swaps :
              swap_diff_panics(context.data, context.possible_swaps[k])
     THEN /\ pc' = "panic"
          /\ UNCHANGED <<best_diff, best_swap>>
     ELSE LET best == ScanSwaps(context.possible_swaps, layout,
                                [swap |-> context.possible_swaps[1], diff |-> 0])
          IN /\ best_diff' = best.diff
             /\ best_swap' = best.swap
             /\ pc' = "gd_decide"
  /\ UNCHANGED <<request, sink, call, context, layout, i, swap_i, trial, temp, result, ddako, history>>

\* mutant of GreedyImproves: the tolerance has the wrong sign
GreedyImprovesLoose(best, evaluator) == FLess(FSub(best, GreedyTolerance * Den(evaluator)), 0)

\* line 291: best_diff + 0.000001 < 0.0
GreedyImproves(best, evaluator) == FLess(FAdd(best, GreedyTolerance * Den(evaluator)), 0)

\* lines 291-293: apply the best swap and go round again
GD_Apply ==
  /\ pc = "gd_decide"
  /\ GreedyImproves(best_diff, context.evaluator)
  /\ layout' = LayoutSwap(layout, best_swap)
  /\ visited' = visited \cup {layout'}
  /\ i' = i + 1
  /\ pc' = "gd_pass"
  /\ UNCHANGED <<request, sink, call, context, best_diff, best_swap, swap_i, trial, temp, result, ddako, shuffled>>

\* lines 294-300: leave the loop and return
GD_Return ==
  /\ pc = "gd_decide"
  /\ ~GreedyImproves(best_diff, context.evaluator)
  /\ result' = FinalResult(i, layout)
  /\ pc' = "returned"
  /\ UNCHANGED <<request, sink, call, context, layout, i, best_diff, best_swap, swap_i, trial, temp, ddako, history>>

(***************************************************************************)
(* greedy_naive_optimization (GreedyNaive)                                 *)
(***************************************************************************)

\* lines 312-321
GN_Start ==
  /\ pc = "context" /\ strategy = "GreedyNaive"
  /\ layout' \in Shuffles(context.layout, context.pin)
  /\ shuffled' = TRUE
  /\ i' = 0
  /\ swap_i' = 0
  /\ pc' = "gn_loop"
  /\ UNCHANGED <<request, sink, call, context, best_diff, best_swap, trial, temp, result, ddako, visited>>

\* mutant of NaiveAccepts: a zero score is accepted too
NaiveAcceptsNeutral(score) == FLess(score, 0) \/ score = 0

\* line 327: the trial's swap is applied
NaiveAccepts(score) == FLess(score, 0)

\* lines 322-331: one trial; choose() on an empty list yields None and unwrap panics
GN_Trial ==
  /\ pc = "gn_loop" /\ i < NaiveTrials
  /\ \/ /\ context.possible_swaps = <<>>
        /\ pc' = "panic"
        /\ UNCHANGED <<layout, i, swap_i, swap, accepted>>
     \/ \E k \in DOMAIN context.possible_swaps :
          /\ swap' = context.possible_swaps[k]
          /\ IF swap_diff_panics(context.data, swap')
             THEN /\ pc' = "panic"
                  /\ UNCHANGED <<layout, i, swap_i, accepted>>
             ELSE /\ accepted' = NaiveAccepts(SwapScore(layout, swap'))
                  /\ IF accepted'
                     THEN /\ layout' = LayoutSwap(layout, swap')
                          /\ swap_i' = i
                     ELSE UNCHANGED <<layout, swap_i>>
                  /\ i' = i + 1
                  /\ pc' = pc
  /\ UNCHANGED <<request, sink, call, context, best_diff, best_swap, draw, temp, result, ddako, history>>

\* lines 332-334
GN_Return ==
  /\ pc = "gn_loop" /\ i = NaiveTrials
  /\ result' = FinalResult(swap_i, layout)
  /\ pc' = "returned"
  /\ UNCHANGED <<request, sink, call, context, layout, i, best_diff, best_swap, swap_i, trial, temp, ddako, history>>

(***************************************************************************)
(* simulated_annealing (fixed schedule)                                    *)
(***************************************************************************)

\* the iteration count (1_000_000 at line 356), scaled down
AnnealIterations == 3

\* temperatures and uniform draws are integers in units of 0.5 / iterations:
\* the initial temperature is 0.5 (line 355); the draw u stands for the draws
\* of rng.gen::<f32>() in [u, u + 1) of that unit, and the last one for every
\* draw from 0.5 up to 1.0, which no temperature of the schedule exceeds
InitialTemp == AnnealIterations
DrawRange == AnnealIterations + 1

\* dec = temp / iterations (line 357)
Dec(temp0) == temp0 \div AnnealIterations

\* lines 346-357, from the initial temperature temp0
SA_Begin(temp0) ==
  /\ pc = "context" /\ strategy = "SimulatedAnnealing"
  /\ layout' \in Shuffles(context.layout, context.pin)
  /\ shuffled' = TRUE
  /\ temp' = temp0
  /\ i' = 0
  /\ pc' = "sa_loop"
  /\ UNCHANGED <<request, sink, call, context, best_diff, best_swap, swap_i, trial, result, ddako, visited>>

SA_Start == SA_Begin(InitialTemp)

\* mutant of Cooled: the temperature is not lowered before the test
CooledLate(t, dec) == t

\* line 359: the temperature the iteration's test uses
Cooled(t, dec) == t - dec

\* mutant of AnnealAccepts: a draw equal to the temperature is accepted
AnnealAcceptsInclusive(score, u, t) == FLess(score, 0) \/ u <= t

\* line 364: score < 0.0 || rng.gen::<f32>() < temp
AnnealAccepts(score, u, t) == FLess(score, 0) \/ u < t

\* lines 358-367: one iteration from the initial temperature temp0
SA_Step(temp0) ==
  /\ pc = "sa_loop" /\ i < AnnealIterations
  /\ temp' = Cooled(temp, Dec(temp0))
  /\ \/ /\ context.possible_swaps = <<>>
        /\ pc' = "panic"
        /\ UNCHANGED <<layout, i, trial>>
     \/ \E k \in DOMAIN context.possible_swaps :
          /\ swap' = context.possible_swaps[k]
          /\ IF swap_diff_panics(context.data, swap')
             THEN /\ pc' = "panic"
                  /\ UNCHANGED <<layout, i, draw, accepted>>
             ELSE /\ draw' \in 0..(DrawRange - 1)
                  /\ accepted' = AnnealAccepts(SwapScore(layout, swap'), draw', temp')
                  /\ layout' = IF accepted' THEN LayoutSwap(layout, swap') ELSE layout
                  /\ i' = i + 1
                  /\ pc' = pc
  /\ UNCHANGED <<request, sink, call, context, best_diff, best_swap, swap_i, result, ddako, history>>

SA_Iterate == SA_Step(InitialTemp)

\* lines 368-370
SA_Return ==
  /\ pc = "sa_loop" /\ i = AnnealIterations
  /\ result' = FinalResult(AnnealIterations, layout)
  /\ pc' = "returned"
  /\ UNCHANGED <<request, sink, call, context, layout, i, best_diff, best_swap, swap_i, trial, temp, ddako, history>>

(***************************************************************************)
(* ddako_simulated_annealing and ddako::SimulatedAnnealing (DDAKO)         *)
(***************************************************************************)

\* window_size (20 at line 199), scaled down
WindowSize == 2

\* the cap on the inner moves explored of a run without max_iterations (no cap
\* in the code): an outer iteration starts only while the moves done are fewer
MaxMoves == 11

\* max_iterations of a run constructed with Some(max_iterations)
IterationLimit == 11

\* delta > 0.001 (line 137), in units of 1e-6
EnergyThreshold == 1000

\* get_stopping_point: ceil(n * (ln n + 0.5772157) + 0.5) as usize, tabulated
\* for n = 0..12 (n = 0 gives NaN, which casts to 0)
StoppingPoints == <<0, 2, 4, 6, 9, 12, 15, 19, 22, 26, 30, 34, 38>>

get_stopping_point(layout_size) == StoppingPoints[layout_size + 1]

\* the layout_size argument of optimize (analysis.rs, line 401)
LayoutSizeArg == Len(context.possible_swaps)

\* _evaluate_swap: the fitness f of layout l plus the score of the swap's diff
evaluate_swap(l, f, s) == FAdd(f, SwapScore(l, s))

\* mutant of evaluate_swap_slowly: the reversed swap is not applied
evaluate_swap_unrestored(l, s) ==
  [score |-> eval(context.evaluator, calc_stats(context.data, LayoutSwap(l, s))),
   layout |-> LayoutSwap(l, s)]

\* evaluate_swap_slowly: apply the swap, recompute from scratch, apply the
\* reversed swap; the score and the layout it leaves
evaluate_swap_slowly(l, s) ==
  [score |-> eval(context.evaluator, calc_stats(context.data, LayoutSwap(l, s))),
   layout |-> LayoutSwap(LayoutSwap(l, s), [a |-> s.b, b |-> s.a])]

\* lines 388-399 and SimulatedAnnealing::new: the driver's layout is a clone of
\* the seed; stats and fitness are computed from it
DD_New ==
  /\ pc = "context" /\ strategy = "DDAKOSimulatedAnnealing"
  /\ layout' = context.layout
  /\ stats' = calc_stats(context.data, context.layout)
  /\ fitness' = eval(context.evaluator, calc_stats(context.data, context.layout))
  /\ cooling_interval' = initial_interval
  /\ self_temp' = "None"
  /\ cooled' = 0
  /\ stopping_point' = 0
  /\ pc' = "dd_optimize"
  /\ UNCHANGED <<request, sink, call, context, i, best_diff, best_swap, swap_i, trial, temp, result,
                 best_layout, best_fitness, stays, iteration, last_adjustment,
                 recent_acceptances, last_improvement_iteration, below, estimate, history>>

\* get_initial_temperature, lines 133-134: the swaps evaluated in order, each on
\* the layout the one before left; the scores and the layout left at the end
RECURSIVE SlowPass(_, _)
SlowPass(l, swaps) ==
  IF swaps = <<>> THEN [scores |-> <<>>, layout |-> l]
  ELSE LET first == evaluate_swap_slowly(l, Head(swaps))
           rest == SlowPass(first.layout, Tail(swaps))
       IN [scores |-> <<first.score>> \o rest.scores, layout |-> rest.layout]

\* get_initial_temperature, lines 133-142: the energies of one pass, i.e. the
\* new fitness of every possible swap that worsens by more than 0.001
Energies(l, f) ==
  SelectSeq(SlowPass(l, context.possible_swaps).scores,
            LAMBDA e : FLess(EnergyThreshold * Den(context.evaluator), FSub(e, f)))

TempClasses == {"pos", "neg", "zero", "inf", "nan"}

\* the class of an f32
TempClassOf(f) ==
  IF f = NaN THEN "nan"
  ELSE IF Infinite(f) THEN "inf"
  ELSE IF f > 0 THEN "pos" ELSE IF f < 0 THEN "neg" ELSE "zero"

\* get_initial_temperature, lines 127-128 (entered from optimize, line 185):
\* tn = fitness, acceptance_probability = 0.0.  The class of the probability is
\* "within" when |p - 0.8| <= 0.01, "off" when |p - 0.8| > 0.01, "nan" for NaN.
DD_EstimateStart ==
  /\ pc = "dd_optimize"
  /\ tn' = TempClassOf(fitness)
  /\ acceptance_probability' = "off"
  /\ pc' = "dd_estimate"
  /\ UNCHANGED <<request, sink, call, context, layout, i, best_diff, best_swap, swap_i, trial, temp,
                 result, stats, fitness, self_temp, cooled, stopping_point, cooling_interval,
                 best_layout, best_fitness, stays, iteration, last_adjustment,
                 recent_acceptances, last_improvement_iteration, below, history>>

\* lines 144-153: the probability and the temperature one pass leaves.  With no
\* energies sum_exp is 0.0 and the divisor 0.0 * exp(..): the probability is
\* NaN and tn is doubled.  With energies a NaN tn gives NaN; otherwise the
\* values depend on exp and ln of f32 values, which are not modelled: the
\* probability can be on target only for a positive tn (which a factor
\* ln p / ln 0.8 near 1 keeps positive), and off target or NaN with any tn.
PassOutcomes(t, energies) ==
  IF energies = <<>> THEN { [p |-> "nan", tn |-> t] }
  ELSE IF t = "nan" THEN { [p |-> "nan", tn |-> "nan"] }
  ELSE { [p |-> "within", tn |-> t] : x \in { y \in {t} : y = "pos" } }
       \cup { [p |-> "off", tn |-> c] : c \in TempClasses }
       \cup { [p |-> "nan", tn |-> "nan"] }

\* the test of the while loop, line 130: (p - 0.8).abs() > 0.01, false for NaN
EstimateGoesOn(p) == p = "off"

\* lines 130-167: one pass of the loop
DD_EstimatePass ==
  /\ pc = "dd_estimate"
  /\ EstimateGoesOn(acceptance_probability)
  /\ \E o \in PassOutcomes(tn, Energies(layout, fitness)) :
       /\ acceptance_probability' = o.p
       /\ tn' = o.tn
  /\ layout' = SlowPass(layout, context.possible_swaps).layout
  /\ pc' = pc
  /\ UNCHANGED <<request, sink, call, context, i, best_diff, best_swap, swap_i, trial, temp,
                 result, stats, fitness, self_temp, cooled, stopping_point, cooling_interval,
                 best_layout, best_fitness, stays, iteration, last_adjustment,
                 recent_acceptances, last_improvement_iteration, below, history>>

\* optimize, lines 184-201: the loop of get_initial_temperature is left and tn
\* becomes the temperature; the stopping point, the locals
DD_Begin ==
  /\ pc = "dd_estimate"
  /\ ~EstimateGoesOn(acceptance_probability)
  /\ self_temp' = tn
  /\ cooled' = 0
  /\ tn' = "None"
  /\ acceptance_probability' = "None"
  /\ stopping_point' = get_stopping_point(LayoutSizeArg)
  /\ best_layout' = layout
  /\ best_fitness' = fitness
  /\ stays' = 0
  /\ iteration' = 0
  /\ last_adjustment' = 0
  /\ recent_acceptances' = <<>>
  /\ last_improvement_iteration' = 0
  /\ pc' = "dd_outer"
  /\ UNCHANGED <<request, sink, call, context, layout, i, best_diff, best_swap, swap_i, trial, temp,
                 result, stats, fitness, cooling_interval, below, history>>

\* mutant of GoesOn: the iteration equal to max_iterations is still run
GoesOnPast(st, stop, it, max_iter) ==
  st < stop /\ (max_iter # NoLimit => it <= max_iter)

\* lines 203-208: the run goes on
GoesOn(st, stop, it, max_iter) ==
  st < stop /\ (max_iter # NoLimit => it < max_iter)

\* lines 203-210: the test of the outer loop
DD_Outer ==
  /\ pc = "dd_outer"
  /\ GoesOn(stays, stopping_point, iteration, max_iterations)
  /\ max_iterations = NoLimit => iteration * LayoutSizeArg < MaxMoves
  /\ i' = 0
  /\ pc' = "dd_inner"
  /\ UNCHANGED <<request, sink, call, context, layout, best_diff, best_swap, swap_i, trial, temp,
                 result, ddako, history>>

\* E.powf(-delta / temp) for delta >= 0, as far as a draw in [0, 1) can tell:
\* "one" (every draw is below), "zero" or NaN (no draw is below), "open" (some are)
ExpThreshold(delta, t) ==
  IF t = "nan" \/ delta = NaN THEN "zero"
  ELSE IF t = "zero" THEN "zero"
  ELSE IF delta = 0 THEN "one"
  ELSE IF t = "pos" THEN "open"
  ELSE "one"

\* line 217: the move improves
Improves(delta) == FLess(delta, 0)

\* mutant of SaturatingDec: a plain subtraction
PlainDec(n) == n - 1

\* line 223: stays.saturating_sub(1)
SaturatingDec(n) == IF n > 0 THEN n - 1 ELSE 0

\* mutant of Trim: the newest entry is the one dropped
TrimNewest(window) ==
  IF Len(window) > WindowSize THEN SubSeq(window, 1, WindowSize) ELSE window

\* lines 229-231: drop the oldest entry of a window that outgrew window_size
Trim(window) == IF Len(window) > WindowSize THEN Tail(window) ELSE window

\* mutant of NewBest: the best-ever pair follows every accepted move
NewBestAlways(f, best) == TRUE

\* line 242: the accepted move is a new best
NewBest(f, best) == FLess(f, best)

\* mutant of Zeroed: the buffer keeps its values
NotZeroed(buffer) == buffer

\* line 235: stats.iter_mut().for_each(|x| *x = 0.0)
Zeroed(buffer) == [k \in DOMAIN buffer |-> 0]

\* lines 211-248: one inner move
DD_Move ==
  /\ pc = "dd_inner" /\ i < LayoutSizeArg
  /\ \E k \in DOMAIN context.possible_swaps :
       LET new_swap == context.possible_swaps[k]
           slow == evaluate_swap_slowly(layout, new_swap)
           new_fitness == slow.score
           delta == FSub(new_fitness, fitness)
       IN /\ swap' = new_swap
          /\ IF Improves(delta)
             THEN /\ below' = FALSE
                  /\ recent_acceptances' = Trim(Append(recent_acceptances, TRUE))
                  /\ accepted' = TRUE
                  /\ stays' = 0
             ELSE /\ below' \in { ExpThreshold(delta, self_temp) = "one" }
                               \cup { b \in BOOLEAN : ExpThreshold(delta, self_temp) = "open" }
                  /\ IF below'
                     THEN /\ accepted' = TRUE
                          /\ stays' = SaturatingDec(stays)
                          /\ recent_acceptances' = Trim(recent_acceptances)
                     ELSE /\ accepted' = FALSE
                          /\ stays' = stays + 1
                          /\ recent_acceptances' = Trim(Append(recent_acceptances, FALSE))
          /\ IF accepted'
             THEN /\ layout' = LayoutSwap(slow.layout, new_swap)
                  /\ stats' = recalc_stats(Zeroed(stats), context.data, layout')
                  /\ fitness' = new_fitness
                  /\ IF NewBest(new_fitness, best_fitness)
                     THEN /\ last_improvement_iteration' = iteration
                          /\ best_layout' = layout'
                          /\ best_fitness' = new_fitness
                     ELSE UNCHANGED <<last_improvement_iteration, best_layout, best_fitness>>
             ELSE /\ layout' = slow.layout
                  /\ UNCHANGED <<stats, fitness, last_improvement_iteration, best_layout,
                                 best_fitness>>
  /\ i' = i + 1
  /\ pc' = pc
  /\ UNCHANGED <<request, sink, call, context, best_diff, best_swap, swap_i, draw, temp, result,
                 self_temp, cooled, stopping_point, cooling_interval, iteration,
                 last_adjustment,
                 estimate, history>>

\* acceptance_rate > 0.1 (lines 250-251, 290): trues / len, NaN for an empty window
RateAboveTenth(window) ==
  /\ Len(window) > 0
  /\ 10 * Cardinality({k \in DOMAIN window : window[k]}) > Len(window)

\* line 286: iteration > 0 && (iteration - last_adjustment) % cooling_interval as u32 == 0
AdaptationDue(it, last, interval) ==
  it > 0 /\ (it - last) % (interval \div 1000) = 0

\* mutant of AdaptInterval: the new interval is not held between the minimum
\* and the maximum
AdaptIntervalUnclamped(interval, window, time_since_improvement) ==
  IF RateAboveTenth(window) \/ interval > 1000 * time_since_improvement
  THEN (interval * 11) \div 10
  ELSE (interval * 9) \div 10

\* mutant of AdaptInterval: a shortened interval is not held at the minimum
AdaptIntervalNoFloor(interval, window, time_since_improvement) ==
  IF RateAboveTenth(window) \/ interval > 1000 * time_since_improvement
  THEN LET longer == (interval * 11) \div 10
       IN IF longer < CoolingIntervalMax THEN longer ELSE CoolingIntervalMax
  ELSE (interval * 9) \div 10

\* lines 290-296: the new cooling interval
AdaptInterval(interval, window, time_since_improvement) ==
  IF RateAboveTenth(window) \/ interval > 1000 * time_since_improvement
  THEN LET longer == (interval * 11) \div 10
       IN IF longer < CoolingIntervalMax THEN longer ELSE CoolingIntervalMax
  ELSE LET shorter == (interval * 9) \div 10
       IN IF shorter > CoolingIntervalMin THEN shorter ELSE CoolingIntervalMin

\* lines 250-298: the end of an outer iteration; the temperature is multiplied
\* by cooling_rate (0.9 at analysis.rs, line 393), which keeps its class
DD_Adapt ==
  /\ pc = "dd_inner" /\ i = LayoutSizeArg
  /\ IF AdaptationDue(iteration, last_adjustment, cooling_interval)
     THEN /\ last_adjustment' = iteration
          /\ cooled' = cooled + 1
          /\ cooling_interval' = AdaptInterval(cooling_interval, recent_acceptances,
                                               iteration - last_improvement_iteration)
     ELSE UNCHANGED <<last_adjustment, cooled, cooling_interval>>
  /\ iteration' = iteration + 1
  /\ pc' = "dd_outer"
  /\ UNCHANGED <<request, sink, call, context, layout, i, best_diff, best_swap, swap_i, trial, temp,
                 result, stats, fitness, self_temp, stopping_point, best_layout,
                 best_fitness, stays, recent_acceptances, last_improvement_iteration,
                 below, estimate, history>>

\* lines 301-303: the best-ever layout with stats recomputed from scratch
DD_Return ==
  /\ pc = "dd_outer"
  /\ ~GoesOn(stays, stopping_point, iteration, max_iterations)
  /\ stats' = calc_stats(context.data, best_layout)
  /\ result' = [iterations |-> iteration, score |-> best_fitness,
                stats |-> stats', layout |-> best_layout]
  /\ pc' = "returned"
  /\ UNCHANGED <<request, sink, call, context, layout, i, best_diff, best_swap, swap_i, trial, temp,
                 fitness, self_temp, cooled, stopping_point, cooling_interval, best_layout,
                 best_fitness, stays, iteration, last_adjustment, recent_acceptances,
                 last_improvement_iteration, below, estimate, history>>

Next ==
  \/ Setup \/ Gen_Write
  \/ Collect_Setup \/ Collect_Work \/ Collect_Join
  \/ GD_Start \/ GD_Scan \/ GD_Apply \/ GD_Return
  \/ GN_Start \/ GN_Trial \/ GN_Return
  \/ SA_Start \/ SA_Iterate \/ SA_Return
  \/ DD_New \/ DD_EstimateStart \/ DD_EstimatePass \/ DD_Begin \/ DD_Outer \/ DD_Move \/ DD_Adapt \/ DD_Return

Spec == Init /\ [][Next]_vars

(***************************************************************************)
(* The setup functions called on their own                                 *)
(***************************************************************************)

\* no request: one function is called on the arguments held in arg
Calling ==
  /\ runs = 0
  /\ max_iterations = NoLimit
  /\ initial_interval = CoolingInterval0
  /\ command = "Call"
  /\ strategy = "none"
  /\ pin = 0
  /\ mdi = 1
  /\ wi = 1
  /\ char_set = <<>>
  /\ count = 0

\* all sequences over S of length 0..n
SeqsUpTo(S, n) == UNION { [1..k -> S] : k \in 0..n }

\* the corpus character codes; 0 is a character the corpus does not know
CharCodes == 0..Len(CorpusChars)

\* the longest char_set tried: one more character than the keyboard has positions
MaxCharSetLen == 5

InitLayoutFromCharset ==
  /\ Start /\ Calling
  /\ arg \in { [fn |-> "layout_from_charset", char_set |-> c] :
                c \in SeqsUpTo(CharCodes, MaxCharSetLen) }

\* layout_from_charset, lines 154-166
Call_layout_from_charset ==
  /\ pc = "request" /\ command = "Call" /\ arg.fn = "layout_from_charset"
  /\ IF layout_from_charset_panics(arg.char_set)
     THEN /\ pc' = "panic"
          /\ UNCHANGED out
     ELSE /\ pc' = "called"
          /\ out' = [fn |-> "layout_from_charset",
                     layout |-> layout_from_charset(arg.char_set)]
  /\ UNCHANGED <<request, sink, arg, context, layout, i, best_diff, best_swap, swap_i, trial,
                 temp, result, ddako, history>>

SpecLayoutFromCharset == InitLayoutFromCharset /\ [][Call_layout_from_charset]_vars

\* raw i16 weights, stats values (a diff has negative ones) and the longest
\* weight list tried
RawWeights == {-2, -1, 1, 3}
StatValues == -1..1
MaxWeights == 2

InitEvaluator ==
  /\ Start /\ Calling
  /\ arg \in { [fn |-> "Evaluator", metrics |-> ms, stats |-> st] :
                ms \in SeqsUpTo((0..(MetricCount - 1)) \X RawWeights, MaxWeights),
                st \in [1..MetricCount -> StatValues] }

\* Evaluator::from(metrics) and eval(stats) on the evaluator built, lines 244-257
Call_Evaluator ==
  /\ pc = "request" /\ command = "Call" /\ arg.fn = "Evaluator"
  /\ pc' = "called"
  /\ out' = [fn |-> "Evaluator",
             evaluator |-> EvaluatorFrom(arg.metrics),
             score |-> eval(EvaluatorFrom(arg.metrics), arg.stats)]
  /\ UNCHANGED <<request, sink, arg, context, layout, i, best_diff, best_swap, swap_i, trial,
                 temp, result, ddako, history>>

SpecEvaluator == InitEvaluator /\ [][Call_Evaluator]_vars

\* the strokes a metric data file is made of here: contributions to one metric,
\* to two, to a third, and none
StrokePool ==
  { [nstroke |-> <<0, 1>>, amounts |-> << [metric |-> 0, amount |-> 2000] >>],
    [nstroke |-> <<1, 0>>, amounts |-> << [metric |-> 0, amount |-> 1000],
                                          [metric |-> 1, amount |-> 3000] >>],
    [nstroke |-> <<0>>,    amounts |-> << [metric |-> 2, amount |-> 1] >>],
    [nstroke |-> <<2, 0>>, amounts |-> << >>] }

\* the longest stroke list tried
MaxStrokes == 3

\* the metrics arguments of filter_metrics: the kept metric indices, as a list
KeepLists ==
  { <<>>, <<0>>, <<1>>, <<2>>, <<0, 1>>, <<2, 0>>, <<1, 2>>, <<1, 1>>, <<0, 1, 2>> }

InitFilter ==
  /\ Start /\ Calling
  /\ arg \in { [fn |-> "filter_metrics",
                 md |-> kc_metric_data(ss, PositionCount),
                 metrics |-> keep] :
                ss \in SeqsUpTo(StrokePool, MaxStrokes), keep \in KeepLists }

\* filter_metrics, lines 135-152
Call_filter_metrics ==
  /\ pc = "request" /\ command = "Call" /\ arg.fn = "filter_metrics"
  /\ IF filter_metrics_panics(arg.md, arg.metrics)
     THEN /\ pc' = "panic"
          /\ UNCHANGED out
     ELSE /\ pc' = "called"
          /\ out' = [fn |-> "filter_metrics", data |-> filter_metrics(arg.md, arg.metrics)]
  /\ UNCHANGED <<request, sink, arg, context, layout, i, best_diff, best_swap, swap_i, trial,
                 temp, result, ddako, history>>

SpecFilter == InitFilter /\ [][Call_filter_metrics]_vars

\* one strategy at a time
InitGD == Init /\ command = "Generate" /\ strategy = "GreedyDeterministic"
NextGD == Setup \/ GD_Start \/ GD_Scan \/ GD_Apply \/ GD_Return
SpecGD == InitGD /\ [][NextGD]_vars

InitGN == Init /\ command = "Generate" /\ strategy = "GreedyNaive"
NextGN == Setup \/ GN_Start \/ GN_Trial \/ GN_Return
SpecGN == InitGN /\ [][NextGN]_vars

InitSA == Init /\ command = "Generate" /\ strategy = "SimulatedAnnealing"
NextSA == Setup \/ SA_Start \/ SA_Iterate \/ SA_Return
SpecSA == InitSA /\ [][NextSA]_vars

\* scenario D of the specification: the fixed schedule started at temperature
\* 0.0 instead of the 0.5 of line 355
SA_ColdStart == SA_Begin(0)
SA_ColdIterate == SA_Step(0)
NextColdSA == Setup \/ SA_ColdStart \/ SA_ColdIterate \/ SA_Return
SpecColdSA == InitSA /\ [][NextColdSA]_vars

\* steepest descent under weak fairness: a driver that can take a step takes it
SpecGDFair == SpecGD /\ WF_vars(NextGD)

InitDD == Init /\ command = "Generate" /\ strategy = "DDAKOSimulatedAnnealing"
NextDD == Setup \/ DD_New \/ DD_EstimateStart \/ DD_EstimatePass \/ DD_Begin \/ DD_Outer \/ DD_Move \/ DD_Adapt \/ DD_Return
SpecDD == InitDD /\ [][NextDD]_vars

\* the DDAKO driver constructed with max_iterations = Some(IterationLimit) and a
\* cooling interval of CoolingIntervals, on the requests that pin a position or
\* more
InitDDLimited ==
  /\ Start
  /\ runs = 1
  /\ max_iterations = IterationLimit
  /\ initial_interval \in CoolingIntervals
  /\ command = "Generate"
  /\ strategy = "DDAKOSimulatedAnnealing"
  /\ pin \in 1..PositionCount
  /\ mdi \in DOMAIN MetricDatas
  /\ wi \in DOMAIN MetricArgs
  /\ ~ZeroSum(MetricArgs[wi])
  /\ char_set \in CharSets
  /\ count = 0
  /\ arg = NoCall
SpecDDLimited == InitDDLimited /\ [][NextDD]_vars

\* Collect requests only
InitCollect == Init /\ command = "Collect"
NextCollect == Collect_Setup \/ Collect_Work \/ Collect_Join
SpecCollect == InitCollect /\ [][NextCollect]_vars

\* generation requests whose raw weights sum to zero
InitDegenerate == Start /\ Generation /\ ZeroSum(MetricArgs[wi])
NextGenerate ==
  \/ Setup \/ Gen_Write
  \/ GD_Start \/ GD_Scan \/ GD_Apply \/ GD_Return
  \/ GN_Start \/ GN_Trial \/ GN_Return
  \/ SA_Start \/ SA_Iterate \/ SA_Return
  \/ DD_New \/ DD_EstimateStart \/ DD_EstimatePass \/ DD_Begin \/ DD_Outer \/ DD_Move \/ DD_Adapt \/ DD_Return
SpecDegenerate == InitDegenerate /\ [][NextGenerate]_vars

\* generation requests of Runs runs
InitRuns == Start /\ GenerationArgs /\ runs = Runs /\ ~ZeroSum(MetricArgs[wi])
NextRuns == NextGenerate \/ Gen_Again
SpecRuns == InitRuns /\ [][NextRuns]_vars

(***************************************************************************)
(* Properties                                                              *)
(***************************************************************************)

Positions == 0..(PositionCount - 1)

\* a driver is past its start: it holds a layout of its own
Running == pc \in {"gd_pass", "gd_decide", "gn_loop", "sa_loop", "dd_optimize", "dd_estimate",
                   "dd_outer", "dd_inner", "returned", "written"}

\* the pinned prefix of l is the seed's
PinKept(l) == \A k \in 1..context.pin : l[k] = context.layout[k]

\* C1: pin respect.  In every state of a run of any of the four drivers the
\* driver's layout agrees with the seed on positions [0, pin); so does the
\* best-ever layout of DDAKO and the layout of the returned tuple.
C1_PinRespect ==
  /\ layout # <<>> => PinKept(layout)
  /\ best_layout # <<>> => PinKept(best_layout)
  /\ pc = "returned" => PinKept(result.layout)

\* C1 witness: a run with a pinned prefix returned a layout other than the seed
C1_Witness ==
  pc = "returned" /\ pin = 1 /\ result.layout # context.layout

\* C2: delta identity.  For the layout of any running driver and every possible
\* swap, calc_stats + swap_diff equals calc_stats of the swapped layout for
\* every metric; the fast estimate (fitness + score of the diff) equals the
\* slow path's value; and the score steepest descent found for the swap it
\* selected (if any) is the change of the from-scratch score that swap makes.
C2_DeltaIdentity ==
  (Running /\ layout # <<>>) =>
    /\ \A k \in DOMAIN context.possible_swaps :
         LET s == context.possible_swaps[k]
         IN ~swap_diff_panics(context.data, s) =>
              /\ \A m \in 1..MetricCount :
                   calc_stats(context.data, layout)[m] + swap_diff(context.data, layout, s)[m]
                     = calc_stats(context.data, LayoutSwap(layout, s))[m]
              /\ evaluate_swap(layout, Score(layout), s)
                   = evaluate_swap_slowly(layout, s).score
    /\ (pc = "gd_decide" /\ best_diff < 0) =>
         Score(LayoutSwap(layout, best_swap)) = Score(layout) + best_diff

\* C2 witness: steepest descent found a swap with a non-zero score
C2_Witness == pc = "gd_decide" /\ best_diff < 0

\* C3: possible_swaps is exactly the set of ordered pairs (a, b) of positions
\* with a # b, a >= pin and b >= pin.
C3_PossibleSwapsExact ==
  (command = "Generate" /\ context # NoContext) =>
    Range(context.possible_swaps)
      = { [a |-> x, b |-> y] : x, y \in Positions } \cap
        { sw \in [a : Positions, b : Positions] :
            sw.a # sw.b /\ sw.a >= pin /\ sw.b >= pin }

\* C4: every driver, DDAKO included, has shuffled its clone of the seed before
\* it evaluates its first swap.
C4_EveryDriverShuffles == Running => shuffled

\* C5: steepest descent terminates on every input and then returns: a run
\* that has not returned can always take another step.
C5_ReturnsOrContinues == pc = "returned" \/ ENABLED NextGD

\* steepest descent never runs forever: under fairness every run ends, by a
\* return or by a panic
GD_Halts == <>(pc \in {"returned", "panic"})

\* C6: steepest-descent monotonicity.  Every applied swap strictly lowers the
\* from-scratch score of the current layout, and leads to a layout the run has
\* not held before.
C6_StrictDescent ==
  [][(pc = "gd_decide" /\ pc' = "gd_pass") =>
       (Score(layout') < Score(layout) /\ layout' \notin visited)]_vars

\* C6 witness: a run applied two swaps in a row
C6_Witness == strategy = "GreedyDeterministic" /\ i >= 2

\* one trial of greedy_naive_optimization was completed
NaiveStep == pc = "gn_loop" /\ pc' = "gn_loop" /\ i' = i + 1

\* C7: GreedyNaive returns after exactly the budgeted number of trials; a trial
\* applies its swap iff the score of the swap's diff is strictly negative; the
\* from-scratch score of the layout never increases over a trial.
C7_NaiveTrials ==
  [][/\ NaiveStep =>
          /\ i < NaiveTrials
          /\ accepted' <=> (SwapScore(layout, swap') < 0)
          /\ layout' = IF SwapScore(layout, swap') < 0
                       THEN LayoutSwap(layout, swap') ELSE layout
          /\ Score(layout') <= Score(layout)
     /\ (pc = "gn_loop" /\ pc' = "returned") => (i = NaiveTrials /\ layout' = layout)
    ]_vars

\* C7 witness: a trial drew a zero-score swap and did not apply it
C7_Witness ==
  /\ strategy = "GreedyNaive" /\ pc = "gn_loop" /\ i > 0
  /\ ~accepted /\ SwapScore(layout, swap) = 0

\* one iteration of simulated_annealing was completed
AnnealStep == pc = "sa_loop" /\ pc' = "sa_loop" /\ i' = i + 1

\* C8 as claimed: at iteration i the decision comes first, so a swap with score
\* >= 0 is accepted iff the draw is below T0 - i * dec, and a swap with score
\* < 0 is always accepted.
C8_DecideThenCool ==
  [][AnnealStep =>
       /\ SwapScore(layout, swap') < 0 => accepted'
       /\ SwapScore(layout, swap') >= 0 =>
            (accepted' <=> draw' < InitialTemp - i * Dec(InitialTemp))]_vars

\* C8 as amended: the temperature is lowered first, so at iteration i a swap
\* with score >= 0 is accepted iff the draw is below T0 - (i + 1) * dec, and a
\* swap with score < 0 is always accepted.
C8_CoolThenDecide ==
  [][AnnealStep =>
       /\ temp' = InitialTemp - (i + 1) * Dec(InitialTemp)
       /\ SwapScore(layout, swap') < 0 => accepted'
       /\ SwapScore(layout, swap') >= 0 =>
            (accepted' <=> draw' < InitialTemp - (i + 1) * Dec(InitialTemp))]_vars

\* C8 witness: the first iteration rejected a swap on a draw in [T0 - dec, T0)
C8_Witness ==
  /\ strategy = "SimulatedAnnealing" /\ pc = "sa_loop" /\ i = 1
  /\ ~accepted /\ draw = InitialTemp - Dec(InitialTemp)

\* C9: started at temperature 0, an iteration of the fixed schedule applies its
\* swap exactly when a trial of randomized greedy on the same layout and swap
\* would, and leaves the layout that trial would leave.
C9_ColdAnnealIsNaive ==
  [][AnnealStep =>
       /\ accepted' <=> NaiveAccepts(SwapScore(layout, swap'))
       /\ layout' = IF NaiveAccepts(SwapScore(layout, swap'))
                    THEN LayoutSwap(layout, swap') ELSE layout]_vars

\* C9 witness: at temperature 0 a neutral swap met the lowest draw and was rejected
C9_Witness ==
  /\ strategy = "SimulatedAnnealing" /\ pc = "sa_loop" /\ i > 0
  /\ temp = 0 /\ draw = 0 /\ ~accepted /\ SwapScore(layout, swap) = 0

\* one inner move of optimize was completed
InnerMove == pc = "dd_inner" /\ pc' = "dd_inner" /\ i' = i + 1

\* C10: a DDAKO inner move with delta = new fitness - fitness has exactly one
\* of three outcomes: delta < 0, accepted, stays = 0; else the draw is below
\* exp(-delta / temp), accepted, stays = max(stays - 1, 0); else rejected, the
\* layout unchanged, stays + 1.  stays is never negative, and a move with
\* delta = 0 does not enter the window as an improvement.
C10_MoveOutcomes ==
  [][InnerMove =>
       LET delta == evaluate_swap_slowly(layout, swap').score - fitness
       IN /\ delta < 0 =>
               (accepted' /\ stays' = 0 /\ layout' = LayoutSwap(layout, swap'))
          /\ (delta >= 0 /\ below') =>
               /\ accepted' /\ layout' = LayoutSwap(layout, swap')
               /\ stays' = IF stays - 1 > 0 THEN stays - 1 ELSE 0
          /\ (delta >= 0 /\ ~below') =>
               (~accepted' /\ layout' = layout /\ stays' = stays + 1)
          /\ stays' >= 0
          /\ delta = 0 =>
               recent_acceptances' \in { Trim(recent_acceptances),
                                         Trim(Append(recent_acceptances, FALSE)) }
    ]_vars

\* C10 witness: a non-improving move was accepted on its draw
C10_Witness ==
  strategy = "DDAKOSimulatedAnnealing" /\ pc = "dd_inner" /\ accepted /\ below

\* C11: the acceptance window.  After every inner move the window holds at most
\* window_size entries; an improving accept appends true, a reject appends
\* false, in both cases dropping the oldest entry of a window that outgrew the
\* size; a probabilistic accept of a non-improving move leaves it unchanged.
C11_WindowDiscipline ==
  [][InnerMove =>
       LET delta == evaluate_swap_slowly(layout, swap').score - fitness
           pushed(b) == recent_acceptances \o <<b>>
           kept(w) == IF Len(w) > WindowSize THEN SubSeq(w, 2, Len(w)) ELSE w
       IN /\ Len(recent_acceptances') <= WindowSize
          /\ delta < 0 => recent_acceptances' = kept(pushed(TRUE))
          /\ (delta >= 0 /\ accepted') => recent_acceptances' = recent_acceptances
          /\ ~accepted' => recent_acceptances' = kept(pushed(FALSE))
    ]_vars

\* C11 witness: a non-improving move was accepted on its draw while the window
\* was full
C11_Witness ==
  /\ strategy = "DDAKOSimulatedAnnealing" /\ pc = "dd_inner"
  /\ accepted /\ below /\ Len(recent_acceptances) = WindowSize

\* C12: in a DDAKO run the number of inner moves per outer iteration and the N
\* of the stopping point are the number of positions of the layout.
C12_LayoutSizeIsPositionCount ==
  pc \in {"dd_outer", "dd_inner"} =>
    /\ LayoutSizeArg = Len(context.layout)
    /\ stopping_point = get_stopping_point(Len(context.layout))

\* the smaller of two fitness values
MinFitness(x, y) == IF x < y THEN x ELSE y

\* C13: best-ever tracking.  In every state of optimize's loop F* <= F, F is the
\* from-scratch score of the current layout and F* that of best_layout; an
\* inner move leaves F* = min(F*, new F), so F* never increases and is the
\* minimum over the start layout and all committed layouts; the returned tuple
\* carries F*, best_layout and its from-scratch stats, whose score is F*.
C13_BestEver ==
  [][/\ pc' \in {"dd_outer", "dd_inner"} =>
          /\ best_fitness' <= fitness'
          /\ fitness' = Score(layout')
          /\ best_fitness' = Score(best_layout')
     /\ (pc = "dd_optimize" /\ pc' = "dd_outer") =>
          (best_fitness' = fitness' /\ best_layout' = layout')
     /\ InnerMove =>
          /\ best_fitness' = MinFitness(best_fitness, fitness')
          /\ best_fitness' <= best_fitness
     /\ (pc = "dd_outer" /\ pc' = "returned") =>
          /\ result'.score = best_fitness /\ result'.layout = best_layout
          /\ result'.stats = calc_stats(context.data, best_layout)
          /\ eval(context.evaluator, result'.stats) = result'.score
    ]_vars

\* C13 witness: a run returned a best-ever layout that scores below the seed
C13_Witness ==
  /\ strategy = "DDAKOSimulatedAnnealing" /\ pc = "returned"
  /\ result.layout # context.layout /\ result.score < Score(context.layout)

\* one pass of the loop of get_initial_temperature was completed
EstimatePass == pc = "dd_estimate" /\ pc' = "dd_estimate"

\* C14: the loop of the initial-temperature estimation is left only with an
\* acceptance probability within 0.01 of 0.8 that was computed from a non-empty
\* set of worsening moves; a pass that finds no worsening move only doubles tn:
\* it leaves the probability as it was, so the loop goes on.
C14_EstimateEndsOnTarget ==
  [][/\ (pc = "dd_estimate" /\ pc' = "dd_outer") =>
          (acceptance_probability = "within" /\ Energies(layout, fitness) # <<>>)
     /\ (EstimatePass /\ Energies(layout, fitness) = <<>>) =>
          (acceptance_probability' = acceptance_probability /\ tn' = tn)
    ]_vars

\* the lowest 0-based index of a descriptor whose name or short name is sel
LowestMatch(sel) ==
  CHOOSE m \in 0..(MetricCount - 1) :
    /\ Metrics[m + 1].name = sel \/ Metrics[m + 1].short = sel
    /\ \A n \in 0..(m - 1) : Metrics[n + 1].name # sel /\ Metrics[n + 1].short # sel

\* C15: a request whose raw weights sum to zero is stopped in its setup: the
\* setup never succeeds, no driver is entered and no result is produced.
C15_DegenerateWeightsRejected ==
  ZeroSum(MetricArgs[wi]) =>
    /\ ~(pc = "context" \/ Running)
    /\ context = NoContext /\ result = NoResult

\* C18: a layout built from a charset has as many slots as the keyboard has
\* positions (flattened key map + combos), the charset's codes in its first
\* slots in order and code 0 in the others; a charset with more characters than
\* positions ends in the setup error IncompatibleLayout.
C18_LayoutFromCharset ==
  (arg.fn = "layout_from_charset" /\ pc # "request") =>
     IF Len(arg.char_set) <= Len(Flatten(KeyMap)) + Len(Combos)
     THEN /\ pc = "called"
          /\ Len(out.layout) = Len(Flatten(KeyMap)) + Len(Combos)
          /\ \A k \in DOMAIN out.layout :
                out.layout[k] = IF k <= Len(arg.char_set) THEN arg.char_set[k] ELSE 0
     ELSE pc = "error" /\ error = "IncompatibleLayout"

\* f[1] + ... + f[n]
RECURSIVE SumTo(_, _)
SumTo(f, n) == IF n = 0 THEN 0 ELSE f[n] + SumTo(f, n - 1)

\* C19: for a non-empty weight list with a non-zero raw sum the evaluator
\* stores, pair by pair, the metric and the weight raw / sum; the stored weights
\* sum to 1; eval(stats) is the sum of weight * stats[metric] over the stored
\* pairs, and changing the stat of a metric that is not listed does not change it.
C19_Normalisation ==
  (arg.fn = "Evaluator" /\ pc = "called") =>
    LET ms == arg.metrics
        n == Len(ms)
        sum == SumTo([k \in 1..n |-> ms[k][2]], n)
        e == out.evaluator
    IN (n > 0 /\ sum # 0) =>
         /\ Len(e.metrics) = n
         /\ \A k \in 1..n :
              /\ e.metrics[k][1] = ms[k][1]
              /\ Weight(e, k).den # 0
              /\ Weight(e, k).num * sum = ms[k][2] * Weight(e, k).den
         /\ \A k \in 1..n : Weight(e, k).den = Weight(e, 1).den
         /\ SumTo([k \in 1..n |-> Weight(e, k).num], n) = Weight(e, 1).den
         /\ out.score * sum
              = Den(e) * SumTo([k \in 1..n |-> ms[k][2] * arg.stats[ms[k][1] + 1]], n)
         /\ \A m \in 0..(MetricCount - 1) :
              (\A k \in 1..n : ms[k][1] # m) =>
                 \A v \in StatValues :
                    eval(e, [arg.stats EXCEPT ![m + 1] = v]) = out.score

\* an evaluator of two weights with a negative sum was built and evaluated to a
\* non-zero score on stats that credit a metric it does not list
C19_Witness ==
  /\ arg.fn = "Evaluator" /\ pc = "called"
  /\ Len(arg.metrics) = 2 /\ RawSum(arg.metrics) < 0
  /\ \E k \in 1..2 : arg.metrics[k][2] > 0
  /\ \E m \in 0..(MetricCount - 1) :
       /\ \A k \in 1..2 : arg.metrics[k][1] # m
       /\ arg.stats[m + 1] # 0
  /\ out.score # 0

\* the indices of the strokes of md with a contribution to a metric of keep
KeptIndices(md, keep) ==
  { k \in DOMAIN md.strokes :
      \E j \in DOMAIN md.strokes[k].amounts : md.strokes[k].amounts[j].metric \in keep }

\* C20: the stroke list a filter returns holds exactly the strokes of MD with a
\* contribution to a kept metric, in their original order, each with all its
\* contributions; with nothing kept it is empty.
C20_FilterRetains ==
  (arg.fn = "filter_metrics" /\ pc = "called") =>
    LET keep == Range(arg.metrics)
        kept == KeptIndices(arg.md, keep)
        strokes == out.data.strokes
    IN /\ Len(strokes) = Cardinality(kept)
       /\ \A r \in DOMAIN strokes :
            \E k \in kept :
               /\ Cardinality({ j \in kept : j < k }) = r - 1
               /\ strokes[r] = arg.md.strokes[k]
       /\ keep = {} => strokes = <<>>

\* a filter returned a list that lost a stroke and kept one with a contribution
\* to a metric that is not kept
C20_Witness ==
  /\ arg.fn = "filter_metrics" /\ pc = "called"
  /\ 0 < Len(out.data.strokes) /\ Len(out.data.strokes) < Len(arg.md.strokes)
  /\ \E r \in DOMAIN out.data.strokes :
       \E j \in DOMAIN out.data.strokes[r].amounts :
          out.data.strokes[r].amounts[j].metric \notin Range(arg.metrics)

\* C16: metric selectors.  A request that got past its setup works with, for
\* every selector, the lowest-index descriptor whose name or short name equals
\* it; a request with a selector that matches no descriptor ends with the error
\* "metric not found", with no context, no driver entered, no sample and no
\* result computed, no output file created and nothing written.
C16_SelectorsResolved ==
  /\ (pc \notin {"request", "error", "panic"} /\ command = "Generate") =>
       context.evaluator.metrics =
         [k \in DOMAIN MetricArgs[wi] |->
            <<LowestMatch(MetricArgs[wi][k][1]), MetricArgs[wi][k][2]>>]
  /\ (pc \notin {"request", "error", "panic"} /\ command = "Collect") =>
       context.data =
         filter_metrics(kc_metric_data(MetricDatas[mdi], PositionCount),
                        [k \in DOMAIN MetricArgs[wi] |-> LowestMatch(MetricArgs[wi][k][1])])
  /\ (pc # "request" /\ SelectorsUnresolved(MetricArgs[wi])) =>
       /\ pc = "error" /\ error = "metric not found"
       /\ context = NoContext /\ layout = <<>> /\ result = NoResult
       /\ ~created /\ rows = 0 /\ \A t \in 1..Threads : worker[t] = 0

\* C16 witness: a Collect request with an unresolved selector has ended
C16_Witness ==
  command = "Collect" /\ pc = "error" /\ SelectorsUnresolved(MetricArgs[wi])

\* C17: no driver fails inside its search loop; stated on the case the claim
\* singles out: after a successful setup that left possible_swaps empty, no
\* step of the run ends in a failure (an index out of bounds, an empty random
\* choice).
C17_EmptySwapsNoFailure ==
  [][((pc = "context" \/ Running) /\ context.possible_swaps = <<>>) => pc' # "panic"]_vars

\* C21: after a filter the position-stroke index is the transpose of the
\* filtered stroke list: the call returns (building the index never indexes
\* outside it), the index has one list per keyboard position, as many as the
\* unfiltered index, and stroke i is listed at position p exactly when it
\* touches p.
C21_IndexIsTranspose ==
  (arg.fn = "filter_metrics" /\ pc # "request") =>
    /\ pc = "called"
    /\ Len(out.data.position_strokes) = Len(arg.md.position_strokes)
    /\ \A p \in 0..(Len(arg.md.position_strokes) - 1) :
         \A k \in DOMAIN out.data.strokes :
            (k - 1 \in Range(out.data.position_strokes[p + 1]))
              <=> (p \in Range(out.data.strokes[k].nstroke))

\* every layout over the corpus character codes
Layouts == [1..PositionCount -> CharCodes]

\* C22: filter preservation.  For every kept metric m and every layout,
\* calc_stats over the filtered metric data gives m the total it gives m over
\* the unfiltered metric data.
C22_FilterPreservation ==
  (arg.fn = "filter_metrics" /\ pc = "called") =>
    \A m \in Range(arg.metrics) :
       \A l \in Layouts :
          calc_stats(out.data, l)[m + 1] = calc_stats(arg.md, l)[m + 1]

\* a filter dropped a stroke: on some layout a kept metric has a non-zero total
\* and a metric that is not kept lost a part of its total
C22_Witness ==
  /\ arg.fn = "filter_metrics" /\ pc = "called"
  /\ Len(out.data.strokes) < Len(arg.md.strokes)
  /\ \E l \in Layouts :
       /\ \E m \in Range(arg.metrics) : calc_stats(out.data, l)[m + 1] # 0
       /\ \E m \in (0..(MetricCount - 1)) \ Range(arg.metrics) :
            calc_stats(out.data, l)[m + 1] # calc_stats(arg.md, l)[m + 1]

\* C23: in Collect mode the shared write sinks are serialized behind one
\* mutex: a worker that is writing its line to the output, like one that is
\* updating the progress counter, holds the mutex, so no two workers are
\* writing to the output at the same time.
C23_WritesUnderMutex ==
  /\ \A t \in 1..Threads : wpc[t] \in {"writing", "locked"} => mutex = t
  /\ \A t, u \in 1..Threads : (wpc[t] = "writing" /\ wpc[u] = "writing") => t = u

\* C24: when all workers of a Collect run have finished, exactly count data
\* rows have been written (after the header line) and the progress counter has
\* been incremented exactly count times.
C24_ExactlyCountRows ==
  (command = "Collect" /\ pc = "collected") => (rows = count + 1 /\ progress = count)

\* the first swap of possible_swaps, in list order, with the lowest score on l
FirstMinSwap(l) ==
  LET ps == context.possible_swaps
  IN CHOOSE k \in DOMAIN ps :
       /\ \A j \in DOMAIN ps : SwapScore(l, ps[k]) <= SwapScore(l, ps[j])
       /\ \A j \in 1..(k - 1) : SwapScore(l, ps[k]) < SwapScore(l, ps[j])

\* C25: a pass of steepest descent.  The swap the pass selects is the first one
\* of possible_swaps with the minimum score; it is applied exactly when that
\* minimum is below -1e-6, and otherwise the driver returns: then no swap
\* lowers the from-scratch score of the returned layout by more than 1e-6 and
\* the iteration count returned is the number of swaps applied.
C25_SteepestPass ==
  [][pc = "gd_decide" =>
       LET ps == context.possible_swaps
           kmin == FirstMinSwap(layout)
           lowest == SwapScore(layout, ps[kmin])
           tolerance == GreedyTolerance * Den(context.evaluator)
       IN /\ lowest < 0 => (best_swap = ps[kmin] /\ best_diff = lowest)
          /\ IF lowest + tolerance < 0
             THEN /\ pc' = "gd_pass"
                  /\ layout' = LayoutSwap(layout, ps[kmin])
                  /\ i' = i + 1
             ELSE /\ pc' = "returned"
                  /\ result'.layout = layout
                  /\ result'.iterations = Cardinality(visited) - 1
                  /\ \A k \in DOMAIN ps :
                       Score(LayoutSwap(layout, ps[k])) >= Score(layout) - tolerance]_vars

\* steepest descent returned after three passes: two that applied a swap and
\* the one that found none
C25_Witness ==
  /\ strategy = "GreedyDeterministic" /\ pc = "returned"
  /\ result.iterations = 2 /\ result.layout # context.layout

\* the adaptation step of the outer iteration at hand is taken
AdaptationStep ==
  /\ pc = "dd_inner" /\ i = LayoutSizeArg
  /\ AdaptationDue(iteration, last_adjustment, cooling_interval)

\* the temperature is the initial estimate times cooling_rate^cooled: with
\* cooling_rate = 0.9 one more cooling raises a negative temperature and no other
Increases(class, n, m) == class = "neg" /\ m > n

\* C26: in a DDAKO run the temperature changes only in the adaptation step,
\* which is taken at the end of an outer iteration exactly when iteration > 0
\* and (iteration - last_adjustment) mod floor(cooling_interval) = 0, and at
\* most once per outer iteration (the step ends the iteration); the step sets
\* last_adjustment to the iteration and multiplies the temperature by
\* cooling_rate once; the temperature never increases after the estimate.
C26_TemperatureOnlyCools ==
  [][(pc = "dd_outer" \/ pc = "dd_inner") =>
       /\ self_temp' = self_temp
       /\ IF AdaptationStep
          THEN /\ cooled' = cooled + 1
               /\ last_adjustment' = iteration
               /\ iteration' = iteration + 1
          ELSE cooled' = cooled
       /\ ~Increases(self_temp, cooled, cooled')]_vars

\* the smaller and the greater of two numbers
Least(x, y) == IF x < y THEN x ELSE y
Greatest(x, y) == IF x > y THEN x ELSE y

\* the share of accepted entries of the window exceeds 0.1 (no share of an
\* empty window does)
AcceptanceRateHigh ==
  /\ recent_acceptances # <<>>
  /\ 10 * Len(SelectSeq(recent_acceptances, LAMBDA x : x)) > Len(recent_acceptances)

\* C27: in an adaptation step of a DDAKO run the cooling interval becomes
\* min(cooling_interval * 1.1, cooling_interval_max) when the recent acceptance
\* rate exceeds 0.1 or the interval exceeds the number of iterations since the
\* last improvement, and max(cooling_interval * 0.9, cooling_interval_min)
\* otherwise; no other step of the run changes it.
C27_IntervalAdapts ==
  [][(pc = "dd_outer" \/ pc = "dd_inner") =>
       IF AdaptationStep
       THEN IF \/ AcceptanceRateHigh
               \/ cooling_interval > 1000 * (iteration - last_improvement_iteration)
            THEN cooling_interval' = Least((cooling_interval * 11) \div 10, CoolingIntervalMax)
            ELSE cooling_interval' = Greatest((cooling_interval * 9) \div 10, CoolingIntervalMin)
       ELSE cooling_interval' = cooling_interval]_vars

\* two adaptation steps from the interval 5.0, one that lengthened and one that
\* shortened, in a run that goes on
C27_Witness ==
  /\ pc = "dd_outer" /\ cooled = 2
  /\ initial_interval = CoolingInterval0 /\ cooling_interval = 4950

\* the states of a DDAKO driver from its construction on
DriverExists ==
  /\ strategy = "DDAKOSimulatedAnnealing"
  /\ pc \in {"dd_optimize", "dd_estimate", "dd_outer", "dd_inner", "returned"}

\* C28: with the minimum 1.0 and the maximum 10.0 (and the initial interval
\* 5.0, like any other between them) every state of a DDAKO run has the
\* cooling interval between the minimum and the maximum, and last_adjustment
\* and last_improvement_iteration at most the iteration: the divisor of the
\* adaptation test, floor(cooling_interval), is at least 1 and neither unsigned
\* subtraction goes below zero.
C28_CountersInRange ==
  DriverExists =>
    /\ CoolingIntervalMin <= cooling_interval /\ cooling_interval <= CoolingIntervalMax
    /\ last_adjustment <= iteration
    /\ last_improvement_iteration <= iteration
    /\ cooling_interval \div 1000 >= 1
    /\ iteration - last_adjustment >= 0
    /\ iteration - last_improvement_iteration >= 0

\* a run from the default interval in an outer iteration after its second
\* adaptation step
C28_Witness ==
  /\ DriverExists /\ initial_interval = CoolingInterval0
  /\ pc = "dd_inner" /\ cooled = 2 /\ last_adjustment > 0 /\ iteration > last_adjustment

\* the stopping condition: stays >= S, or max_iterations is set and reached
Stops ==
  stays >= stopping_point \/ (max_iterations # NoLimit /\ iteration >= max_iterations)

\* C29: a DDAKO run returns only from the start of an outer iteration, and
\* there exactly when stays >= S or max_iterations is set and the iteration
\* has reached it; an outer iteration that has begun makes all its inner moves,
\* whatever stays becomes, and then ends; with max_iterations set the
\* iteration never exceeds it and neither does the iteration count returned.
C29_StopsAtBoundaries ==
  [][DriverExists =>
       /\ pc = "dd_outer" =>
            IF Stops
            THEN pc' = "returned" /\ result'.iterations = iteration
            ELSE pc' = "dd_inner" /\ i' = 0 /\ iteration' = iteration
       /\ pc = "dd_inner" =>
            IF i < LayoutSizeArg
            THEN pc' = "dd_inner" /\ i' = i + 1 /\ iteration' = iteration
            ELSE pc' = "dd_outer" /\ iteration' = iteration + 1
       /\ pc' = "returned" => pc = "dd_outer"
       /\ max_iterations # NoLimit =>
            /\ iteration' <= max_iterations
            /\ pc' = "returned" => result'.iterations <= max_iterations]_vars

\* a run ended by max_iterations: it returned that count with stays below S
C29_Witness ==
  /\ DriverExists /\ pc = "returned"
  /\ max_iterations # NoLimit /\ result.iterations = max_iterations
  /\ stays < stopping_point

\* C30: the slow evaluation of a swap leaves the layout as it was, for every
\* possible swap, and changes neither the stats nor the fitness: a pass of the
\* initial-temperature estimation and an inner move that is not accepted leave
\* all three as they were, and when the estimation ends the layout, the stats
\* and the fitness are those the driver was constructed with.
C30_SlowPathRestores ==
  [][(pc = "dd_estimate" \/ pc = "dd_inner") =>
       /\ \A k \in DOMAIN context.possible_swaps :
            evaluate_swap_slowly(layout, context.possible_swaps[k]).layout = layout
       /\ (pc' = "dd_estimate" \/ (pc' = "dd_inner" /\ ~accepted')) =>
            layout' = layout /\ stats' = stats /\ fitness' = fitness
       /\ (pc = "dd_estimate" /\ pc' = "dd_outer") =>
            /\ layout' = context.layout
            /\ stats' = calc_stats(context.data, context.layout)
            /\ fitness' = Score(context.layout)]_vars

\* the estimation ended after a pass that evaluated swaps which change the
\* layout and the score
C30_Witness ==
  /\ DriverExists /\ pc = "dd_outer" /\ iteration = 0
  /\ self_temp = "pos"
  /\ \E k \in DOMAIN context.possible_swaps :
       /\ LayoutSwap(layout, context.possible_swaps[k]) # layout
       /\ evaluate_swap_slowly(layout, context.possible_swaps[k]).score # fitness

\* C31: in a DDAKO run, from the construction of the driver and through every
\* inner move, accepted or not, the stats are those computed from scratch on
\* the current layout and the fitness is their evaluation.
C31_StatsFollowLayout ==
  (strategy = "DDAKOSimulatedAnnealing"
     /\ pc \in {"dd_optimize", "dd_estimate", "dd_outer", "dd_inner"}) =>
    /\ stats = calc_stats(context.data, layout)
    /\ fitness = eval(context.evaluator, calc_stats(context.data, layout))

\* inner moves were made, the last one was not accepted, and accepted ones
\* have left a layout with other stats and another fitness than the seed's
C31_Witness ==
  /\ strategy = "DDAKOSimulatedAnnealing" /\ pc = "dd_inner" /\ i > 0
  /\ ~accepted
  /\ stats # calc_stats(context.data, context.layout)
  /\ fitness # Score(context.layout)

\* a pass of the initial-temperature estimation that finds no energies leaves
\* a probability of NaN, on which the loop test fails: the loop ends with it
EmptyPassEndsEstimate ==
  [][(pc = "dd_estimate" /\ EstimateGoesOn(acceptance_probability)
        /\ Energies(layout, fitness) = <<>>) =>
       (pc' = "dd_estimate" /\ ~EstimateGoesOn(acceptance_probability'))]_vars

\* the number of slots of l that hold the code c
Occurrences(l, c) == Cardinality({k \in DOMAIN l : l[k] = c})

\* l and m have the same length and hold every code equally often
SameCodes(l, m) ==
  /\ Len(l) = Len(m)
  /\ \A c \in Range(l) \cup Range(m) : Occurrences(l, c) = Occurrences(m, c)

\* C33: every driver only permutes the seed.  The seed held in the context is
\* the one built from the charset and no step after the setup changes the
\* context, so every run of the request starts from it; in every state of a run
\* the layout, the layout returned and, for DDAKO, the best layout have the
\* seed's length and hold every character code as often as the seed does.
C33_DriversPermuteSeed ==
  [][/\ pc # "request" => context' = context
     /\ pc' \in {"context", "gd_pass", "gd_decide", "gn_loop", "sa_loop", "dd_optimize",
                 "dd_estimate", "dd_outer", "dd_inner", "returned", "written"} =>
          context'.layout = layout_from_charset(char_set)
     /\ pc' \in {"gd_pass", "gd_decide", "gn_loop", "sa_loop", "dd_optimize", "dd_estimate",
                 "dd_outer", "dd_inner", "returned", "written"} =>
          SameCodes(layout', context'.layout)
     /\ pc' \in {"dd_outer", "dd_inner"} => SameCodes(best_layout', context'.layout)
     /\ pc' \in {"returned", "written"} => SameCodes(result'.layout, context'.layout)]_vars

\* the last of the runs of a request is written and its layout is another
\* arrangement than the seed
C33_Witness ==
  /\ pc = "written" /\ runs = Runs /\ rows = Runs + 1
  /\ result.layout # context.layout

====
